---------------------------- MODULE Spec2Model ----------------------------
(***************************************************************************)
(* Case-conversion helpers (few_shot_prompt.js, refined_prompt.js,         *)
(* chain_prompt / unnamed part_000) and the comments router                *)
(* (backend/routes/api/comments.js).                                       *)
(*                                                                         *)
(* A JavaScript string is a sequence of characters; a character is a       *)
(* TLA+ string naming it.  Non-ASCII characters have these names:          *)
(*   "eacute" U+00E9, "Eacute" U+00C9 (letters, category Ll / Lu),         *)
(*   "U+0301" COMBINING ACUTE ACCENT (category Mn),                        *)
(*   "TM"     U+2122 TRADE MARK SIGN (category So, NFKD = "TM").           *)
(***************************************************************************)
EXTENDS Integers, Sequences, FiniteSets, TLC

VARIABLES
    value,      \* the argument of the conversion call
    fn,         \* the function that was called ("none" before the call)
    probe,      \* outcome of new RegExp('\\p{L}', 'u') in the call
    result,     \* what the call did: a returned string or a thrown error
    comments,   \* the Comment collection: the set of stored documents
    reqs,       \* the requests received by the comments router
    deleted,    \* ids for which a DELETE has been answered 200
    queries     \* number of store operations issued so far

convVars == <<value, fn, probe, result>>
routerVars == <<comments, reqs, deleted, queries>>
vars == <<value, fn, probe, result, comments, reqs, deleted, queries>>

-----------------------------------------------------------------------------
(* Bounds *)

MaxLen == 4
MaxReqs == 2

-----------------------------------------------------------------------------
(* Characters *)

\* <<lowercase, uppercase>> pairs of String.prototype.toLowerCase / toUpperCase
CasePairs ==
    { <<"a", "A">>, <<"b", "B">>, <<"d", "D">>, <<"e", "E">>, <<"f", "F">>,
      <<"i", "I">>, <<"l", "L">>, <<"m", "M">>, <<"n", "N">>, <<"o", "O">>,
      <<"s", "S">>, <<"t", "T">>, <<"u", "U">>, <<"y", "Y">>,
      <<"eacute", "Eacute">> }

AsciiLower == { p[1] : p \in CasePairs } \ {"eacute"}
AsciiUpper == { p[2] : p \in CasePairs } \ {"Eacute"}
Digits == {"0", "1"}

\* [a-z0-9]
IsLowerOrDigit(c) == c \in AsciiLower \cup Digits
\* [A-Z]
IsUpper(c) == c \in AsciiUpper
\* [A-Za-z0-9]
IsAsciiAlnum(c) == c \in AsciiLower \cup AsciiUpper \cup Digits
\* [\p{L}\p{N}]
IsUnicodeAlnum(c) == IsAsciiAlnum(c) \/ c \in {"eacute", "Eacute"}
\* \s, and what trim() strips
IsSpace(c) == c = " "
\* [\u0300-\u036f]
IsCombiningMark(c) == c = "U+0301"

toLowerCaseChar(c) ==
    IF \E p \in CasePairs : p[2] = c
    THEN (CHOOSE p \in CasePairs : p[2] = c)[1]
    ELSE c

toUpperCaseChar(c) ==
    IF \E p \in CasePairs : p[1] = c
    THEN (CHOOSE p \in CasePairs : p[1] = c)[2]
    ELSE c

toLowerCase(s) == [i \in 1..Len(s) |-> toLowerCaseChar(s[i])]
toUpperCase(s) == [i \in 1..Len(s) |-> toUpperCaseChar(s[i])]

\* s.charAt(0): the first character, or '' when s is empty
charAt0(s) == IF Len(s) = 0 THEN <<>> ELSE <<s[1]>>
\* s.slice(1)
slice1(s) == IF Len(s) = 0 THEN <<>> ELSE Tail(s)

RECURSIVE Concat(_)
Concat(ss) == IF ss = <<>> THEN <<>> ELSE Head(ss) \o Concat(Tail(ss))

\* Array.prototype.join(sep)
RECURSIVE join(_, _)
join(ss, sep) ==
    IF ss = <<>> THEN <<>>
    ELSE IF Len(ss) = 1 THEN ss[1]
    ELSE ss[1] \o sep \o join(Tail(ss), sep)

\* Array.prototype.filter(Boolean) on an array of strings: drops ''
RECURSIVE filterBoolean(_)
filterBoolean(ss) ==
    IF ss = <<>> THEN <<>>
    ELSE IF Head(ss) = <<>> THEN filterBoolean(Tail(ss))
    ELSE <<Head(ss)>> \o filterBoolean(Tail(ss))

\* String.prototype.trim()
RECURSIVE trimStart(_)
trimStart(s) ==
    IF s # <<>> /\ IsSpace(Head(s)) THEN trimStart(Tail(s)) ELSE s

RECURSIVE trimEnd(_)
trimEnd(s) ==
    IF s # <<>> /\ IsSpace(s[Len(s)]) THEN trimEnd(SubSeq(s, 1, Len(s) - 1)) ELSE s

trim(s) == trimEnd(trimStart(s))

\* String.prototype.normalize('NFKD'): compatibility decomposition
normalizeNFKDChar(c) ==
    CASE c = "eacute" -> <<"e", "U+0301">>
      [] c = "Eacute" -> <<"E", "U+0301">>
      [] c = "TM" -> <<"T", "M">>
      [] OTHER -> <<c>>

normalizeNFKD(s) == Concat([i \in 1..Len(s) |-> normalizeNFKDChar(s[i])])

\* String.prototype.normalize('NFC'): canonical composition
RECURSIVE normalizeNFC(_)
normalizeNFC(s) ==
    IF Len(s) < 2 THEN s
    ELSE IF s[1] = "e" /\ s[2] = "U+0301"
         THEN <<"eacute">> \o normalizeNFC(SubSeq(s, 3, Len(s)))
    ELSE IF s[1] = "E" /\ s[2] = "U+0301"
         THEN <<"Eacute">> \o normalizeNFC(SubSeq(s, 3, Len(s)))
    ELSE <<s[1]>> \o normalizeNFC(Tail(s))

\* .replace(/[\u0300-\u036f]/g, '')
RECURSIVE stripCombiningMarks(_)
stripCombiningMarks(s) ==
    IF s = <<>> THEN <<>>
    ELSE IF IsCombiningMark(Head(s)) THEN stripCombiningMarks(Tail(s))
    ELSE <<Head(s)>> \o stripCombiningMarks(Tail(s))

-----------------------------------------------------------------------------
(* Values and results *)

InputChars == {"a", "A", "B", "1", " ", "-", "eacute", "TM"}

RECURSIVE StringsUpTo(_)
StringsUpTo(n) ==
    IF n = 0 THEN { <<>> }
    ELSE LET shorter == StringsUpTo(n - 1)
         IN  shorter \cup { Append(s, c) : s \in { t \in shorter : Len(t) = n - 1 },
                                            c \in InputChars }

NullV == [kind |-> "null", str |-> <<>>, throws |-> "none"]
UndefinedV == [kind |-> "undefined", str |-> <<>>, throws |-> "none"]
StringV(s) == [kind |-> "string", str |-> s, throws |-> "none"]
\* a number; str is its decimal form
NumberV(s) == [kind |-> "number", str |-> s, throws |-> "none"]
\* Symbol()
SymbolV == [kind |-> "symbol", str |-> <<>>, throws |-> "none"]
\* an object whose toString throws an error of class e
ThrowingV(e) == [kind |-> "object", str |-> <<>>, throws |-> e]

Values ==
    { StringV(s) : s \in StringsUpTo(MaxLen) }
        \cup { NullV, UndefinedV, SymbolV, NumberV(<<"0">>), NumberV(<<"1">>),
               ThrowingV("Error"), ThrowingV("TypeError") }

Returned(s) == [kind |-> "return", str |-> s, err |-> "none", logged |-> FALSE]
Thrown(e) == [kind |-> "throw", str |-> <<>>, err |-> e, logged |-> FALSE]
NoResult == [kind |-> "none", str |-> <<>>, err |-> "none", logged |-> FALSE]

\* String(v): the string, or the error its toString throws
String(v) ==
    CASE v.kind = "string" -> Returned(v.str)
      [] v.kind = "number" -> Returned(v.str)
      [] v.kind = "null" -> Returned(<<"n", "u", "l", "l">>)
      [] v.kind = "undefined" ->
            Returned(<<"u", "n", "d", "e", "f", "i", "n", "e", "d">>)
      [] v.kind = "symbol" -> Returned(<<"S", "y", "m", "b", "o", "l", "(", ")">>)
      [] OTHER -> Thrown(v.throws)

\* v == null
IsNullish(v) == v.kind \in {"null", "undefined"}
\* !v for the values of the model: null, undefined, '' and 0 are falsy
IsFalsy(v) ==
    \/ IsNullish(v)
    \/ v.kind = "string" /\ v.str = <<>>
    \/ v.kind = "number" /\ v.str = <<"0">>

-----------------------------------------------------------------------------
(* Regular-expression steps *)

\* the camelCase boundaries left alone
replaceCamelBoundary_skipped(s) == s

\* .replace(/([a-z0-9])([A-Z])/g, '$1 $2')
RECURSIVE replaceCamelBoundary(_)
replaceCamelBoundary(s) ==
    IF Len(s) < 2 THEN s
    ELSE IF IsLowerOrDigit(s[1]) /\ IsUpper(s[2])
         THEN <<s[1], " ", s[2]>> \o replaceCamelBoundary(SubSeq(s, 3, Len(s)))
    ELSE <<s[1]>> \o replaceCamelBoundary(Tail(s))

\* The lengths k that ([A-Z]+) can take in a match of ([A-Z]+)([A-Z][a-z0-9])
\* starting at the first character of s
acronymPrefixLengths(s) ==
    { k \in 1..(Len(s) - 2) :
        /\ \A i \in 1..(k + 1) : IsUpper(s[i])
        /\ IsLowerOrDigit(s[k + 2]) }

\* The greedy choice of the regex engine
Maximum(S) == CHOOSE k \in S : \A j \in S : j <= k

\* .replace(/([A-Z]+)([A-Z][a-z0-9])/g, '$1 $2')
RECURSIVE replaceAcronymBoundary(_)
replaceAcronymBoundary(s) ==
    IF s = <<>> THEN <<>>
    ELSE IF acronymPrefixLengths(s) # {}
         THEN LET k == Maximum(acronymPrefixLengths(s))
              IN  SubSeq(s, 1, k) \o <<" ">> \o SubSeq(s, k + 1, k + 2)
                      \o replaceAcronymBoundary(SubSeq(s, k + 3, Len(s)))
    ELSE <<s[1]>> \o replaceAcronymBoundary(Tail(s))

\* The number of leading characters of s in [a-z0-9]
RECURSIVE lowerDigitRun(_)
lowerDigitRun(s) ==
    IF s # <<>> /\ IsLowerOrDigit(Head(s)) THEN 1 + lowerDigitRun(Tail(s)) ELSE 0

\* .replace(/([A-Z]+)([A-Z][a-z0-9]+)/g, '$1 $2')
RECURSIVE replaceAcronymBoundaryPlus(_)
replaceAcronymBoundaryPlus(s) ==
    IF s = <<>> THEN <<>>
    ELSE IF acronymPrefixLengths(s) # {}
         THEN LET k == Maximum(acronymPrefixLengths(s))
                  m == lowerDigitRun(SubSeq(s, k + 2, Len(s)))
              IN  SubSeq(s, 1, k) \o <<" ">> \o SubSeq(s, k + 1, k + 1 + m)
                      \o replaceAcronymBoundaryPlus(SubSeq(s, k + 2 + m, Len(s)))
    ELSE <<s[1]>> \o replaceAcronymBoundaryPlus(Tail(s))

\* .split(/[^A-Za-z0-9]+/): cur is the piece being read, inSep tells that the
\* previous character belonged to a separator
RECURSIVE splitNonAlnumFrom(_, _, _)
splitNonAlnumFrom(s, cur, inSep) ==
    IF s = <<>> THEN <<cur>>
    ELSE IF ~IsAsciiAlnum(Head(s))
         THEN IF inSep THEN splitNonAlnumFrom(Tail(s), cur, TRUE)
              ELSE <<cur>> \o splitNonAlnumFrom(Tail(s), <<>>, TRUE)
    ELSE splitNonAlnumFrom(Tail(s), Append(cur, Head(s)), FALSE)

splitNonAlnum(s) == splitNonAlnumFrom(s, <<>>, FALSE)

\* .split(/\s+/)
RECURSIVE splitSpacesFrom(_, _, _)
splitSpacesFrom(s, cur, inSep) ==
    IF s = <<>> THEN <<cur>>
    ELSE IF IsSpace(Head(s))
         THEN IF inSep THEN splitSpacesFrom(Tail(s), cur, TRUE)
              ELSE <<cur>> \o splitSpacesFrom(Tail(s), <<>>, TRUE)
    ELSE splitSpacesFrom(Tail(s), Append(cur, Head(s)), FALSE)

splitSpaces(s) == splitSpacesFrom(s, <<>>, FALSE)

\* .replace(/[^A-Za-z0-9]+/g, ' ')
RECURSIVE replaceNonAlnumRuns(_, _)
replaceNonAlnumRuns(s, inSep) ==
    IF s = <<>> THEN <<>>
    ELSE IF ~IsAsciiAlnum(Head(s))
         THEN IF inSep THEN replaceNonAlnumRuns(Tail(s), TRUE)
              ELSE <<" ">> \o replaceNonAlnumRuns(Tail(s), TRUE)
    ELSE <<Head(s)>> \o replaceNonAlnumRuns(Tail(s), FALSE)

\* The word class of wordRegex: /[\p{L}\p{N}]+/gu when the runtime supports
\* Unicode property escapes, /[A-Za-z0-9]+/g otherwise
IsWordChar(c, unicode) == IF unicode THEN IsUnicodeAlnum(c) ELSE IsAsciiAlnum(c)

\* str.match(wordRegex): the matches in order; <<>> stands for null
RECURSIVE matchFrom(_, _, _)
matchFrom(s, cur, unicode) ==
    IF s = <<>> THEN (IF cur = <<>> THEN <<>> ELSE <<cur>>)
    ELSE IF IsWordChar(Head(s), unicode)
         THEN matchFrom(Tail(s), Append(cur, Head(s)), unicode)
    ELSE (IF cur = <<>> THEN <<>> ELSE <<cur>>) \o matchFrom(Tail(s), <<>>, unicode)

match(s, unicode) == matchFrom(s, <<>>, unicode)

\* capitalize without lowercasing the word first
capitalize_restAsIs(w) == toUpperCase(charAt0(w)) \o slice1(w)

\* part => lower.charAt(0).toUpperCase() + lower.slice(1)
capitalize(w) ==
    LET lower == toLowerCase(w)
    IN  toUpperCase(charAt0(lower)) \o slice1(lower)

-----------------------------------------------------------------------------
(* few_shot_prompt.js *)

fewShot_toCamelCase(input) ==
    LET coerced == IF IsFalsy(input) THEN Returned(<<>>) ELSE String(input)
    IN  IF coerced.kind = "throw" THEN coerced
        ELSE
        LET s == trim(coerced.str)
            separated == replaceAcronymBoundary(replaceCamelBoundary(s))
            parts == filterBoolean(splitNonAlnum(separated))
        IN  IF s = <<>> THEN Returned(<<>>)
            ELSE IF Len(parts) = 0 THEN Returned(<<>>)
            ELSE Returned(join([i \in 1..Len(parts) |->
                                    IF i = 1 THEN toLowerCase(parts[i])
                                    ELSE capitalize(parts[i])], <<>>))

-----------------------------------------------------------------------------
(* chain_prompt (unnamed part_000) *)

chain_toKebabCas(input) ==
    IF IsNullish(input) THEN Returned(<<>>)
    ELSE
    LET coerced == String(input)
    IN  IF coerced.kind = "throw" THEN coerced
        ELSE
        LET normalized == stripCombiningMarks(normalizeNFKD(coerced.str))
            spaced == replaceAcronymBoundaryPlus(replaceCamelBoundary(normalized))
            tokens == filterBoolean(splitSpaces(trim(replaceNonAlnumRuns(spaced, FALSE))))
        IN  Returned(join([i \in 1..Len(tokens) |-> toLowerCase(tokens[i])], <<"-">>))

chain_toKebabCase(input) ==
    IF input.kind = "symbol" THEN Thrown("TypeError")
    ELSE
    LET r == chain_toKebabCas(input)
    IN  IF r.kind # "throw" THEN r
        ELSE IF r.err = "TypeError" THEN r
        ELSE [Returned(<<>>) EXCEPT !.logged = TRUE]

-----------------------------------------------------------------------------
(* refined_prompt.js *)

\* catch (err) { console.error(...); return ''; }
failSafe(r) == IF r.kind = "throw" THEN [Returned(<<>>) EXCEPT !.logged = TRUE] ELSE r

\* first declaration of toKebabCase (lines 72-112)
refined_toKebabCase_1(v, unicode) ==
    IF IsNullish(v) THEN Returned(<<>>)
    ELSE
    LET coerced == String(v)
    IN  IF coerced.kind = "throw" THEN failSafe(coerced)
        ELSE
        LET str == normalizeNFC(trim(coerced.str))
            words == match(str, unicode)
        IN  IF trim(coerced.str) = <<>> THEN Returned(<<>>)
            ELSE IF Len(words) = 0 THEN Returned(<<>>)
            ELSE Returned(join([i \in 1..Len(words) |->
                                    toLowerCase(normalizeNFC(words[i]))], <<"-">>))

\* second declaration of toKebabCase (lines 113-140)
\* the body of its try block
refined_toKebabCase_2_try(v, unicode) ==
    IF IsNullish(v) THEN Returned(<<>>)
    ELSE
    LET coerced == String(v)
    IN  IF coerced.kind = "throw" THEN coerced
        ELSE
        LET str == trim(coerced.str)
            words == match(str, unicode)
        IN  IF str = <<>> THEN Returned(<<>>)
            ELSE IF Len(words) = 0 THEN Returned(<<>>)
            ELSE Returned(join([i \in 1..Len(words) |-> toLowerCase(words[i])],
                               <<"-">>))

refined_toKebabCase_2(v, unicode) == failSafe(refined_toKebabCase_2_try(v, unicode))

\* third declaration of toKebabCase (lines 141-160)
refined_toKebabCase_3(v, unicode) ==
    IF IsNullish(v) THEN Returned(<<>>)
    ELSE
    LET coerced == String(v)
    IN  IF coerced.kind = "throw" THEN coerced
        ELSE
        LET str == trim(coerced.str)
            words == match(str, unicode)
        IN  IF str = <<>> THEN Returned(<<>>)
            ELSE IF Len(words) = 0 THEN Returned(<<>>)
            ELSE Returned(join([i \in 1..Len(words) |-> toLowerCase(words[i])],
                               <<"-">>))

\* The function the name toKebabCase is bound to: function declarations are
\* hoisted and a later declaration of a name replaces the earlier ones
refined_toKebabCase(v, unicode) == refined_toKebabCase_3(v, unicode)

refined_toCamelCase(v, unicode) ==
    IF IsNullish(v) THEN Returned(<<>>)
    ELSE
    LET coerced == String(v)
    IN  IF coerced.kind = "throw" THEN coerced
        ELSE
        LET str == trim(coerced.str)
            words == match(str, unicode)
        IN  IF str = <<>> THEN Returned(<<>>)
            ELSE IF Len(words) = 0 THEN Returned(<<>>)
            ELSE LET firstPart == toLowerCase(Head(words))
                     rest == Tail(words)
                     restParts == [i \in 1..Len(rest) |-> capitalize(rest[i])]
                 IN  Returned(firstPart \o join(restParts, <<>>))

\* toDotCase copied from toKebabCase with the hyphen left in the join
refined_toDotCase_hyphen(v, unicode) == refined_toKebabCase_3(v, unicode)

refined_toDotCase(v, unicode) ==
    IF IsNullish(v) THEN Returned(<<>>)
    ELSE
    LET coerced == String(v)
    IN  IF coerced.kind = "throw" THEN coerced
        ELSE
        LET str == trim(coerced.str)
            words == match(str, unicode)
        IN  IF str = <<>> THEN Returned(<<>>)
            ELSE IF Len(words) = 0 THEN Returned(<<>>)
            ELSE Returned(join([i \in 1..Len(words) |-> toLowerCase(words[i])],
                               <<".">>))

-----------------------------------------------------------------------------
(* backend/routes/api/comments.js *)

\* mongoose.Types.ObjectId.isValid(id)
ValidIds == {"o1", "o2"}
PathIds == ValidIds \cup {"bad"}
\* every id passes the validation
isValid_any(id) == id \in PathIds
isValid(id) == id \in ValidIds

\* A Comment document
Doc(id) == [id |-> id, text |-> "text"]
NoDoc == [id |-> "none", text |-> ""]
Docs == { Doc(id) : id \in ValidIds }

\* Response bodies
NoBody == [error |-> "", message |-> "", docs |-> {}, comment |-> NoDoc, list |-> FALSE]
ErrorBody(e) == [NoBody EXCEPT !.error = e]
ListBody(ds) == [NoBody EXCEPT !.docs = ds, !.list = TRUE]
DeletedBody(d) == [NoBody EXCEPT !.message = "Comment deleted successfully", !.comment = d]

\* What an awaited store operation settled with
Pending == [state |-> "pending", docs |-> {}, doc |-> NoDoc]
Rejected == [state |-> "rejected", docs |-> {}, doc |-> NoDoc]
FoundAll(ds) == [state |-> "fulfilled", docs |-> ds, doc |-> NoDoc]
\* findByIdAndDelete resolves with the removed document, or with null (NoDoc)
Removed(d) == [state |-> "fulfilled", docs |-> {}, doc |-> d]

\* A request as the router received it; after, queried, removed and responses
\* record what happened to it
NewRequest(method, id, pc) ==
    [method |-> method, id |-> id, pc |-> pc, settled |-> Pending,
     status |-> 0, body |-> NoBody, responses |-> 0,
     after |-> deleted, queried |-> FALSE, removed |-> {}, logged |-> FALSE]

\* res.status(code).json(body); res.json(body) sends status 200
Respond(req, code, body) ==
    [req EXCEPT !.pc = "done", !.status = code, !.body = body,
                !.responses = @ + 1]

\* router.get("/"): the handler runs to `await Comment.find()`
ReceiveGet ==
    /\ Len(reqs) < MaxReqs
    /\ reqs' = Append(reqs, [NewRequest("GET", "none", "find") EXCEPT !.queried = TRUE])
    /\ queries' = queries + 1
    /\ UNCHANGED <<comments, deleted, convVars>>

\* Comment.find() settles: it resolves with the stored documents or rejects
StoreFind(r) ==
    /\ reqs[r].pc = "find"
    /\ \E ok \in BOOLEAN :
         reqs' = [reqs EXCEPT ![r].pc = "findSettled",
                              ![r].settled = IF ok THEN FoundAll(comments) ELSE Rejected]
    /\ UNCHANGED <<comments, deleted, queries, convVars>>

\* router.get("/") after the await: res.json(comments), or the catch block
GetContinue(r) ==
    /\ reqs[r].pc = "findSettled"
    /\ reqs' = [reqs EXCEPT ![r] =
                  IF reqs[r].settled.state = "fulfilled"
                  THEN Respond(@, 200, ListBody(reqs[r].settled.docs))
                  ELSE Respond(@, 500, ErrorBody("Failed to fetch comments"))]
    /\ UNCHANGED <<comments, deleted, queries, convVars>>

\* the handler without the validation of the id
ReceiveDelete_unvalidated(id) ==
    /\ Len(reqs) < MaxReqs
    /\ reqs' = Append(reqs, [NewRequest("DELETE", id, "delete") EXCEPT !.queried = TRUE])
    /\ queries' = queries + 1
    /\ UNCHANGED <<comments, deleted, convVars>>

\* router.delete("/:id"): the handler runs to `await Comment.findByIdAndDelete(id)`,
\* or answers 400 when the id is not an ObjectId
ReceiveDelete(id) ==
    /\ Len(reqs) < MaxReqs
    /\ IF ~isValid(id)
       THEN /\ reqs' = Append(reqs, Respond(NewRequest("DELETE", id, "start"), 400,
                                            ErrorBody("Invalid comment id")))
            /\ UNCHANGED queries
       ELSE /\ reqs' = Append(reqs, [NewRequest("DELETE", id, "delete")
                                        EXCEPT !.queried = TRUE])
            /\ queries' = queries + 1
    /\ UNCHANGED <<comments, deleted, convVars>>

\* Comment.findByIdAndDelete(id) settles: it removes the document with that id and
\* resolves with it, resolves with null when there is none, or rejects
StoreFindByIdAndDelete(r) ==
    /\ reqs[r].pc = "delete"
    /\ \E ok \in BOOLEAN :
         IF ~ok
         THEN /\ reqs' = [reqs EXCEPT ![r].pc = "deleteSettled", ![r].settled = Rejected]
              /\ UNCHANGED comments
         ELSE LET found == { d \in comments : d.id = reqs[r].id }
              IN  IF found = {}
                  THEN /\ reqs' = [reqs EXCEPT ![r].pc = "deleteSettled",
                                               ![r].settled = Removed(NoDoc)]
                       /\ UNCHANGED comments
                  ELSE LET d == CHOOSE x \in found : TRUE
                       IN  /\ reqs' = [reqs EXCEPT ![r].pc = "deleteSettled",
                                                   ![r].settled = Removed(d),
                                                   ![r].removed = @ \cup {d}]
                           /\ comments' = comments \ {d}
    /\ UNCHANGED <<deleted, queries, convVars>>

\* router.delete("/:id") after the await: 404, 200, or the catch block
DeleteContinue(r) ==
    /\ reqs[r].pc = "deleteSettled"
    /\ IF reqs[r].settled.state = "rejected"
       THEN /\ reqs' = [reqs EXCEPT ![r] =
                          [Respond(@, 500, ErrorBody("Failed to delete comment"))
                              EXCEPT !.logged = TRUE]]
            /\ UNCHANGED deleted
       ELSE IF reqs[r].settled.doc = NoDoc
       THEN /\ reqs' = [reqs EXCEPT ![r] = Respond(@, 404, ErrorBody("Comment not found"))]
            /\ UNCHANGED deleted
       ELSE /\ reqs' = [reqs EXCEPT ![r] =
                          Respond(@, 200, DeletedBody(reqs[r].settled.doc))]
            /\ deleted' = deleted \cup {reqs[r].id}
    /\ UNCHANGED <<comments, queries, convVars>>

-----------------------------------------------------------------------------
(* The conversion library: one call of one function on one argument *)

\* Whether the call reaches the probe `new RegExp('\\p{L}', 'u')`
ReachesProbe(v) ==
    /\ ~IsNullish(v)
    /\ String(v).kind = "return"
    /\ trim(String(v).str) # <<>>

RouterIdle ==
    /\ comments = {}
    /\ reqs = <<>>
    /\ deleted = {}
    /\ queries = 0

Init ==
    /\ value \in Values
    /\ fn = "none"
    /\ probe = "none"
    /\ result = NoResult
    /\ RouterIdle

Call(name, r) ==
    /\ fn = "none"
    /\ fn' = name
    /\ result' = r
    /\ UNCHANGED <<value, routerVars>>

\* The runtime either supports Unicode property escapes or does not
CallRefined(name, u, r) ==
    /\ Call(name, r)
    /\ probe' = IF ~ReachesProbe(value) THEN "none"
                ELSE IF u THEN "unicode" ELSE "ascii"

CallFewShotToCamelCase ==
    /\ Call("fewShot.toCamelCase", fewShot_toCamelCase(value))
    /\ UNCHANGED probe

CallChainToKebabCas ==
    /\ Call("chain.toKebabCas", chain_toKebabCas(value))
    /\ UNCHANGED probe

CallChainToKebabCase ==
    /\ Call("chain.toKebabCase", chain_toKebabCase(value))
    /\ UNCHANGED probe

CallToKebabCase ==
    \E u \in BOOLEAN :
        CallRefined("refined.toKebabCase", u, refined_toKebabCase(value, u))

CallToCamelCase ==
    \E u \in BOOLEAN :
        CallRefined("refined.toCamelCase", u, refined_toCamelCase(value, u))

CallToDotCase ==
    \E u \in BOOLEAN :
        CallRefined("refined.toDotCase", u, refined_toDotCase(value, u))

Next ==
    \/ CallFewShotToCamelCase
    \/ CallChainToKebabCas
    \/ CallChainToKebabCase
    \/ CallToKebabCase
    \/ CallToCamelCase
    \/ CallToDotCase

Spec == Init /\ [][Next]_vars

-----------------------------------------------------------------------------
(* The comments router: requests arrive while earlier ones await the store *)

InitRouter ==
    /\ comments \in SUBSET Docs
    /\ reqs = <<>>
    /\ deleted = {}
    /\ queries = 0
    /\ value = NullV
    /\ fn = "none"
    /\ probe = "none"
    /\ result = NoResult

Requests == 1..Len(reqs)

NextRouter ==
    \/ ReceiveGet
    \/ \E id \in PathIds : ReceiveDelete(id)
    \/ \E r \in Requests : StoreFind(r)
    \/ \E r \in Requests : GetContinue(r)
    \/ \E r \in Requests : StoreFindByIdAndDelete(r)
    \/ \E r \in Requests : DeleteContinue(r)

\* The store settles every operation and the event loop runs every continuation
FairRouter ==
    \A r \in 1..MaxReqs :
        /\ WF_vars(r \in Requests /\ StoreFind(r))
        /\ WF_vars(r \in Requests /\ GetContinue(r))
        /\ WF_vars(r \in Requests /\ StoreFindByIdAndDelete(r))
        /\ WF_vars(r \in Requests /\ DeleteContinue(r))

SpecRouter == InitRouter /\ [][NextRouter]_vars /\ FairRouter

-----------------------------------------------------------------------------
(* Properties of the conversion library *)

Called == fn # "none"

\* The word class the call used
Unicode == probe = "unicode"

IsAscii(c) == c \notin {"eacute", "Eacute", "TM", "U+0301"}
IsAsciiString(v) == v.kind = "string" /\ \A i \in 1..Len(v.str) : IsAscii(v.str[i])

\* The string form of the argument: '' for null and undefined
StringForm(v) == IF IsNullish(v) THEN <<>> ELSE String(v).str
HasStringForm(v) == IsNullish(v) \/ String(v).kind = "return"

\* Positions of the letters and digits of s, and those that begin a maximal run
WordPositions(s, u) == { i \in 1..Len(s) : IsWordChar(s[i], u) }
StartsWord(s, i, u) == IsWordChar(s[i], u) /\ (i = 1 \/ ~IsWordChar(s[i - 1], u))
WordCount(s, u) == Cardinality({ i \in 1..Len(s) : StartsWord(s, i, u) })
\* The k-th letter or digit of s
NthWordPosition(s, u, k) ==
    CHOOSE i \in WordPositions(s, u) :
        Cardinality({ j \in WordPositions(s, u) : j <= i }) = k

\* lowercase(w1) then uppercase(first of wi) + lowercase(rest of wi), with
\* nothing in between
ExpectedCamel(s, u) ==
    [k \in 1..Cardinality(WordPositions(s, u)) |->
        LET i == NthWordPosition(s, u, k)
        IN  IF k > 1 /\ StartsWord(s, i, u) THEN toUpperCaseChar(s[i])
            ELSE toLowerCaseChar(s[i])]

\* The lowercased words with one sep between consecutive words
ExpectedJoined(s, u, sep) ==
    Concat([k \in 1..Cardinality(WordPositions(s, u)) |->
        LET i == NthWordPosition(s, u, k)
        IN  IF k > 1 /\ StartsWord(s, i, u) THEN <<sep, toLowerCaseChar(s[i])>>
            ELSE <<toLowerCaseChar(s[i])>>])

Occurrences(s, c) == Cardinality({ i \in 1..Len(s) : s[i] = c })
IsUppercaseLetter(c) == \E p \in CasePairs : p[2] = c
ReplaceChar(s, from, to) == [i \in 1..Len(s) |-> IF s[i] = from THEN to ELSE s[i]]

\* A string of whitespace and other characters that are neither letters nor digits
IsBlank(v) ==
    \/ IsNullish(v)
    \/ v.kind = "string" /\ \A i \in 1..Len(v.str) : ~IsUnicodeAlnum(v.str[i])

\* C1: every conversion function returns '' (and does not throw) for null,
\* undefined, '' and a string of whitespace and other non-alphanumeric
\* characters only.
C1_BlankGivesEmpty ==
    (Called /\ IsBlank(value)) => result = Returned(<<>>)

\* C2: for a non-null input whose trimmed string form has a letter or digit,
\* toCamelCase of refined_prompt.js is lowercase(w1) followed by
\* uppercase(first character) + lowercase(rest) of every later word, nothing in
\* between, the words being the maximal runs of letters/digits in input order.
C2_CamelOfRuns ==
    (/\ fn = "refined.toCamelCase"
     /\ ~IsNullish(value)
     /\ String(value).kind = "return"
     /\ WordPositions(String(value).str, Unicode) # {})
    => /\ result.kind = "return"
       /\ result.str = ExpectedCamel(String(value).str, Unicode)
       /\ \A i \in 1..Len(result.str) : IsWordChar(result.str[i], Unicode)

C2_Witness ==
    /\ fn = "refined.toCamelCase"
    /\ value = StringV(<<"1", " ", "a", "B">>)
    /\ result = Returned(<<"1", "A", "b">>)

HasCaseBoundary(s) ==
    \/ \E i \in 1..(Len(s) - 1) : IsLowerOrDigit(s[i]) /\ IsUpper(s[i + 1])
    \/ \E i \in 1..(Len(s) - 2) :
          IsUpper(s[i]) /\ IsUpper(s[i + 1]) /\ IsLowerOrDigit(s[i + 2])

\* The result of the refined_prompt.js function that fn is compared with
RefinedCounterpart(u) ==
    IF fn = "fewShot.toCamelCase" THEN refined_toCamelCase(value, u)
    ELSE refined_toKebabCase(value, u)

Duplicated == fn \in {"fewShot.toCamelCase", "chain.toKebabCas", "chain.toKebabCase"}

\* C4 as stated: all functions tokenize alike (a word is a maximal run of
\* letters/digits), so over ASCII input strings toCamelCase of
\* few_shot_prompt.js equals toCamelCase of refined_prompt.js and toKebabCase
\* of chain_prompt equals toKebabCase of refined_prompt.js.
C4_SameTokenization ==
    (Duplicated /\ IsAsciiString(value))
    => \A u \in BOOLEAN : result = RefinedCounterpart(u)

\* C4 amended: few_shot_prompt.js and chain_prompt also split a run at a case
\* boundary; over ASCII input strings their results equal those of
\* refined_prompt.js exactly when the input has no case boundary.
C4_SameUnlessCaseBoundary ==
    (Duplicated /\ IsAsciiString(value))
    => \A u \in BOOLEAN :
          (result = RefinedCounterpart(u)) <=> ~HasCaseBoundary(value.str)

C4_Witness ==
    /\ fn = "fewShot.toCamelCase"
    /\ value = StringV(<<"a", "A", "B", "a">>)
    /\ result = Returned(<<"a", "A", "B", "a">>)
    /\ refined_toCamelCase(value, TRUE) = Returned(<<"a", "a", "b", "a">>)

\* C7: the function bound to the name toKebabCase in refined_prompt.js never
\* propagates an exception: when String(value) throws it logs an error and
\* returns ''.
C7_KebabFailsSafely ==
    fn = "refined.toKebabCase"
    => /\ result.kind = "return"
       /\ String(value).kind = "throw" => (result.str = <<>> /\ result.logged)

-----------------------------------------------------------------------------
(* Properties of the comments router *)

Done(r) == reqs[r].pc = "done"
IsGet(r) == reqs[r].method = "GET"
IsDelete(r) == reqs[r].method = "DELETE"

\* The response the routes' documentation gives a settled request
ExpectedResponse(req) ==
    IF req.method = "GET"
    THEN IF req.settled.state = "rejected"
         THEN <<500, ErrorBody("Failed to fetch comments")>>
         ELSE <<200, ListBody(req.settled.docs)>>
    ELSE IF req.id \notin ValidIds THEN <<400, ErrorBody("Invalid comment id")>>
    ELSE IF req.settled.state = "rejected"
         THEN <<500, ErrorBody("Failed to delete comment")>>
    ELSE IF req.settled.doc = NoDoc THEN <<404, ErrorBody("Comment not found")>>
    ELSE <<200, DeletedBody(req.settled.doc)>>

\* Status and body of every response, and at most one response per request
ResponsesAsDocumented ==
    \A r \in Requests :
        /\ reqs[r].responses = (IF Done(r) THEN 1 ELSE 0)
        /\ ~Done(r) => reqs[r].status = 0 /\ reqs[r].body = NoBody
        /\ Done(r) =>
             /\ <<reqs[r].status, reqs[r].body>> = ExpectedResponse(reqs[r])
             /\ reqs[r].status \in {200, 400, 404, 500}
             /\ (IsGet(r) /\ reqs[r].status = 200) => comments \subseteq reqs[r].body.docs
             /\ (IsDelete(r) /\ reqs[r].status = 200) =>
                    reqs[r].body.comment = Doc(reqs[r].id)

\* What the store answers follows from its content when it answers
StoreAnswers ==
    \A r \in Requests :
        (r \in 1..Len(reqs') /\ reqs[r].settled = Pending
            /\ reqs'[r].settled.state = "fulfilled")
        => IF IsGet(r) THEN reqs'[r].settled.docs = comments
           ELSE reqs'[r].settled.doc =
                    (IF Doc(reqs[r].id) \in comments THEN Doc(reqs[r].id) ELSE NoDoc)

\* Every request is answered
EveryRequestAnswered ==
    \A r \in 1..MaxReqs : (r \in Requests) ~> (r \in Requests /\ Done(r))

\* C5: every request receives exactly one response.  GET /: 200 with the stored
\* comments, 500 'Failed to fetch comments' if the query fails.  DELETE /:id:
\* 400 'Invalid comment id' for an id that is no ObjectId, else 404 'Comment not
\* found' if no comment has the id, else 200 with the deleted document, and 500
\* 'Failed to delete comment' if the store operation fails.  No other status is
\* sent and no request stays unanswered.
C5_OneDocumentedResponse ==
    /\ []ResponsesAsDocumented
    /\ [][StoreAnswers]_vars
    /\ EveryRequestAnswered

C5_Witness ==
    \E r1, r2 \in Requests :
        /\ IsDelete(r1) /\ reqs[r1].status = 200
        /\ reqs[r1].body = DeletedBody(Doc("o1"))
        /\ IsGet(r2) /\ reqs[r2].status = 500

\* Only a DELETE that is answered 200 has removed anything, and it removed the
\* comment with its id; an invalid id never reaches the store
OnlyDeletedIsRemoved ==
    /\ \A r \in Requests :
          /\ reqs[r].removed \subseteq {Doc(reqs[r].id)}
          /\ IsGet(r) => reqs[r].removed = {}
          /\ Done(r) => (reqs[r].removed # {} <=> (IsDelete(r) /\ reqs[r].status = 200))
          /\ (~Done(r) /\ reqs[r].removed # {}) => reqs[r].pc = "deleteSettled"
          /\ (IsDelete(r) /\ reqs[r].id \notin ValidIds) => ~reqs[r].queried
    /\ queries = Cardinality({ r \in Requests : reqs[r].queried })
    /\ \A x \in deleted : Doc(x) \notin comments

\* A step that changes the collection removes exactly the comment with the id
\* of one DELETE request, which is then answered 200
CollectionFrame ==
    comments' # comments =>
        \E r \in Requests :
            /\ IsDelete(r) /\ reqs[r].id \in ValidIds
            /\ Doc(reqs[r].id) \in comments
            /\ comments' = comments \ {Doc(reqs[r].id)}
            /\ reqs[r].removed = {} /\ reqs'[r].removed = {Doc(reqs[r].id)}

\* A GET received after the 200 for id X does not list X
LaterGetOmitsDeleted ==
    \A r \in Requests :
        (IsGet(r) /\ Done(r)) => \A x \in reqs[r].after : Doc(x) \notin reqs[r].body.docs

\* C6 as stated: the collection changes only when a DELETE responds 200, which
\* removes exactly the comment with that id; 400, 404, 500 and GET leave it
\* unchanged; an invalid id never reaches the store; after a 200 for id X a
\* later GET never contains X and a later DELETE of X responds 404.
C6_LaterDeleteIs404 ==
    /\ OnlyDeletedIsRemoved
    /\ LaterGetOmitsDeleted
    /\ \A r \in Requests :
          (IsDelete(r) /\ Done(r) /\ reqs[r].id \in reqs[r].after)
          => reqs[r].status = 404

\* C6 amended: as stated, except that a later DELETE of X responds 404, or 500
\* when the store operation fails, and never 200.
C6_DeleteFrame ==
    /\ [](/\ OnlyDeletedIsRemoved
          /\ LaterGetOmitsDeleted
          /\ \A r \in Requests :
                (IsDelete(r) /\ Done(r) /\ reqs[r].id \in reqs[r].after)
                => /\ reqs[r].status \in {404, 500}
                   /\ reqs[r].status = 500 <=> reqs[r].settled.state = "rejected")
    /\ [][CollectionFrame]_vars

C6_Witness ==
    \E r1, r2 \in Requests :
        /\ IsDelete(r1) /\ reqs[r1].status = 200
        /\ IsDelete(r2) /\ reqs[r2].id = reqs[r1].id /\ reqs[r2].id \in reqs[r2].after
        /\ reqs[r2].status = 404
        /\ comments = {Doc("o2")}

=============================================================================
